---- MODULE Spec2Model ----
(***************************************************************************)
(* Model of src/main.py: the valuation fetcher (get_valuation_data, with   *)
(* its st.cache_data(ttl=3600) memoisation) and the allocation engine      *)
(* (calculate_allocation).                                                 *)
(*                                                                         *)
(* Units.  Time is in seconds.  Trade dates are day numbers (a trade date  *)
(* is the midnight of its day).  Ratios (pe_ttm, pb) are in thousandths,   *)
(* formatted values and percentiles in hundredths, weights in tenths and   *)
(* money in cents.  Floating point is modelled by exact rational           *)
(* arithmetic; "%.2f" and round(2) round half to even.                     *)
(***************************************************************************)
EXTENDS Integers, Sequences, FiniteSets, TLC

\* ------------------------------------------------------------------ bounds
MaxLen == 3          \* rows in one upstream series (percentile specification)
MaxRows == 2         \* summaries handed to calculate_allocation
NumEntries == 2      \* portfolio entries (fetch specification)
MaxTicks == 2        \* clock steps (fetch specification)
MaxCalls == 3        \* get_valuation_data calls (fetch specification)

\* --------------------------------------------------------------- constants
TTL == 3600                  \* st.cache_data(ttl=3600)
DaysPerYear == 365           \* timedelta(days=365 * years)
Day == 86400                 \* seconds in a day
Today == 3650                \* day number of the run's calendar day
Step == 1800                 \* seconds one clock step advances

Years == {3, 5, 10}
Metrics == {"PE", "PB"}
Columns == Metrics \X Years
MissingCol == <<"PB", 1>>    \* a selector naming no column of the summaries

\* pandas NaN: a float that compares False with everything
NaN == -999999
IsNaN(x) == x = NaN
Less(a, b) == ~IsNaN(a) /\ ~IsNaN(b) /\ a < b

\* ------------------------------------------------------------- formatting
\* round half to even of num/den (den > 0)
RoundHalfEven(num, den) ==
  LET q == num \div den
      r == num % den
  IN  IF 2 * r > den \/ (2 * r = den /\ q % 2 = 1) THEN q + 1 ELSE q

\* f"{x:.2f}" of a ratio given in thousandths
FormatRatio(x) ==
  IF IsNaN(x) THEN [text |-> "nan", hundredths |-> 0]
  ELSE [text |-> "num", hundredths |-> RoundHalfEven(x, 10)]

NotAvailable == [text |-> "N/A", hundredths |-> 0]

\* faulty variant: the percentile is cut, not rounded, to two decimals
FormatPercentileTruncated(k, n) ==
  [text |-> "pct", hundredths |-> (k * 10000) \div n]

\* f"{k / n * 100:.2f}%"
FormatPercentile(k, n) ==
  [text |-> "pct", hundredths |-> RoundHalfEven(k * 10000, n)]

\* -------------------------------------------------------- get_valuation_data
Col(p, metric) == IF metric = "PE" THEN p.pe_ttm ELSE p.pb

\* df_hist[df_hist['trade_date'] >= datetime.now() - timedelta(days=365*years)]
\* (one call reads the clock once: the time the loop itself takes is left out)
Period(df_hist, t, years) ==
  SelectSeq(df_hist, LAMBDA p : p.trade_date * Day >= t - DaysPerYear * years * Day)

\* dropna(subset=[metric]) then [metric > 0]
Clean(df_period, metric) ==
  SelectSeq(df_period, LAMBDA p : ~IsNaN(Col(p, metric)) /\ Col(p, metric) > 0)

\* faulty variant: (df[metric] <= current).sum(), a rank that counts ties
CountLessOrEqual(df, metric, current) ==
  Cardinality({i \in 1..Len(df) :
    ~IsNaN(Col(df[i], metric)) /\ ~IsNaN(current) /\ Col(df[i], metric) <= current})

\* (df[metric] < current).sum()
CountLess(df, metric, current) ==
  Cardinality({i \in 1..Len(df) : Less(Col(df[i], metric), current)})

\* df_hist.iloc[0][metric]
Current(df_hist, metric) == Col(df_hist[1], metric)

Percentile(df_hist, t, metric, years) ==
  LET df == Clean(Period(df_hist, t, years), metric)
  IN  IF Len(df) > 0
      THEN FormatPercentile(CountLess(df, metric, Current(df_hist, metric)), Len(df))
      ELSE NotAvailable

ItemResult(name, df_hist, t) ==
  [name |-> name,
   current |-> [m \in Metrics |-> FormatRatio(Current(df_hist, m))],
   pct |-> [c \in Columns |-> Percentile(df_hist, t, c[1], c[2])]]

\* --------------------------------------------------------------- the state
VARIABLES
  now,              \* datetime.now(), in seconds
  upstream,         \* what pro.index_dailybasic answers for each index
  cache,            \* st.cache_data's store of get_valuation_data
  ncalls,           \* get_valuation_data calls made so far
  prev, last,       \* the two most recent get_valuation_data calls
  valuation_data,   \* the DataFrame handed to calculate_allocation
  allocation        \* what the last calculate_allocation call did

vars == <<now, upstream, cache, ncalls, prev, last, valuation_data, allocation>>

Entries == 1..NumEntries

\* an upstream answer: the call raised, or it returned rows
Raised == [ok |-> FALSE, rows |-> <<>>]
Returned(rows) == [ok |-> TRUE, rows |-> rows]

\* for ... in portfolio.items(): the rows appended to results
RECURSIVE Results(_, _, _)
Results(portfolio, up, t) ==
  IF portfolio = <<>> THEN <<>>
  ELSE LET name == Head(portfolio)
           df_hist == up[name].rows
           rest == Results(Tail(portfolio), up, t)
       IN  IF df_hist = <<>> THEN rest
           ELSE <<ItemResult(name, df_hist, t)>> \o rest

\* the index of the first entry whose upstream call raises (0: none)
FirstRaise(portfolio, up) ==
  LET bad == {i \in 1..Len(portfolio) : ~up[portfolio[i]].ok}
  IN  IF bad = {} THEN 0 ELSE CHOOSE i \in bad : \A j \in bad : i <= j

\* the entries st.warning named as skipped before the loop ended
Skipped(portfolio, up) ==
  LET stop == FirstRaise(portfolio, up)
      upto == IF stop = 0 THEN Len(portfolio) ELSE stop - 1
  IN  {portfolio[i] : i \in {j \in 1..upto : up[portfolio[j]].rows = <<>>}}

\* the body of get_valuation_data: try ... except Exception
FetchBody(portfolio, up, t) ==
  IF FirstRaise(portfolio, up) # 0
  THEN [df |-> <<>>, error |-> TRUE, skipped |-> Skipped(portfolio, up)]
  ELSE [df |-> Results(portfolio, up, t), error |-> FALSE,
        skipped |-> Skipped(portfolio, up)]

NoEntry == [present |-> FALSE, stored_at |-> 0, value |-> FetchBody(<<>>, <<>>, 0)]
NoCall == [made |-> FALSE, key |-> <<>>, at |-> 0, hit |-> FALSE, computed_at |-> 0,
           value |-> FetchBody(<<>>, <<>>, 0)]

\* st.cache_data(ttl=3600): an entry lives ttl seconds from the time it was stored
Fresh(entry, t) == entry.present /\ t - entry.stored_at < TTL

\* faulty variant: the function is not memoised
LookupUncached(key, t) == FetchBody(key, upstream, t)

\* what the memoised get_valuation_data returns: the fresh entry, else the body's result
Lookup(key, t) ==
  IF Fresh(cache[key], t) THEN cache[key].value ELSE FetchBody(key, upstream, t)

Store(key, t, value) ==
  [cache EXCEPT ![key] = [present |-> TRUE, stored_at |-> t, value |-> value]]

\* get_valuation_data(token, portfolio) answered from the cache
CallHit(key) ==
  /\ ncalls < MaxCalls
  /\ Fresh(cache[key], now)
  /\ last' = [made |-> TRUE, key |-> key, at |-> now, hit |-> TRUE,
              computed_at |-> cache[key].stored_at, value |-> Lookup(key, now)]
  /\ prev' = last
  /\ ncalls' = ncalls + 1
  /\ UNCHANGED <<now, upstream, cache, valuation_data, allocation>>

\* get_valuation_data(token, portfolio) computed and stored
CallMiss(key) ==
  /\ ncalls < MaxCalls
  /\ ~Fresh(cache[key], now)
  /\ last' = [made |-> TRUE, key |-> key, at |-> now, hit |-> FALSE,
              computed_at |-> now, value |-> Lookup(key, now)]
  /\ prev' = last
  /\ cache' = Store(key, now, Lookup(key, now))
  /\ ncalls' = ncalls + 1
  /\ UNCHANGED <<now, upstream, valuation_data, allocation>>

NotCalled == [called |-> FALSE, total |-> 0, col |-> MissingCol,
              empty |-> TRUE, rows |-> <<>>, warning |-> FALSE]

\* ------------------------------------------------------ calculate_allocation
\* faulty variant: bands closed at their upper end (percentile <= 20 -> 2.0, ...)
get_weight_inclusive(percentile_str) ==
  IF percentile_str.text # "pct" THEN 0
  ELSE LET percentile == percentile_str.hundredths
       IN  IF percentile <= 2000 THEN 20
           ELSE IF percentile <= 4000 THEN 15
           ELSE IF percentile <= 6000 THEN 10
           ELSE IF percentile <= 8000 THEN 5
           ELSE 1

\* get_weight(percentile_str), in tenths
get_weight(percentile_str) ==
  IF percentile_str.text # "pct" THEN 0
  ELSE LET percentile == percentile_str.hundredths
       IN  IF percentile < 2000 THEN 20
           ELSE IF 2000 <= percentile /\ percentile < 4000 THEN 15
           ELSE IF 4000 <= percentile /\ percentile < 6000 THEN 10
           ELSE IF 6000 <= percentile /\ percentile < 8000 THEN 5
           ELSE 1

RECURSIVE SumSeq(_)
SumSeq(s) == IF s = <<>> THEN 0 ELSE Head(s) + SumSeq(Tail(s))

\* faulty variant: the weights are normalised by the number of rows
TotalWeightAsCount(weights) == 10 * Len(weights)

\* df['投资权重'].sum()
TotalWeight(weights) == SumSeq(weights)

\* faulty variant: the amount is cut, not rounded, to two decimals
AmountTruncated(weight, total_weight, total_investment) ==
  (weight * total_investment) \div total_weight

\* (weight / total_weight * total_investment).round(2), in cents
Amount(weight, total_weight, total_investment) ==
  RoundHalfEven(weight * total_investment, total_weight)

\* faulty variant: the no-investment branch leaves the total in the column
AmountsKeepTotal(weights, total_investment) ==
  IF TotalWeight(weights) = 0 THEN [i \in DOMAIN weights |-> total_investment]
  ELSE [i \in DOMAIN weights |->
          Amount(weights[i], TotalWeight(weights), total_investment)]

\* the column of amounts: 0 everywhere when no weight is positive
Amounts(weights, total_investment) ==
  IF TotalWeight(weights) = 0 THEN [i \in DOMAIN weights |-> 0]
  ELSE [i \in DOMAIN weights |->
          Amount(weights[i], TotalWeight(weights), total_investment)]

\* st.warning(...) of the no-investment branch
Warns(weights) == TotalWeight(weights) = 0

\* valuation_data.empty or selected_percentile_col not in valuation_data.columns
NothingToDo(data, col) == data = <<>> \/ col \notin DOMAIN data[1].pct

Allocate(total, data, col) ==
  IF NothingToDo(data, col)
  THEN [called |-> TRUE, total |-> total, col |-> col, empty |-> TRUE,
        rows |-> <<>>, warning |-> FALSE]
  ELSE LET weights == [i \in DOMAIN data |-> get_weight(data[i].pct[col])]
           amounts == Amounts(weights, total)
       IN  [called |-> TRUE, total |-> total, col |-> col, empty |-> FALSE,
            rows |-> [i \in DOMAIN data |->
                        [name |-> data[i].name, percentile |-> data[i].pct[col],
                         weight |-> weights[i], amount |-> amounts[i]]],
            warning |-> Warns(weights)]

\* calculate_allocation called directly with any amount and any selector
CalculateAllocation(total, col) ==
  /\ allocation' = Allocate(total, valuation_data, col)
  /\ UNCHANGED <<now, upstream, cache, ncalls, prev, last, valuation_data>>

\* one run of the page once get_valuation_data has answered valuation_data:
\* the amount comes from a number_input with min_value=0.0 and the selector
\* from the two select boxes
Rerun(total, col) ==
  /\ total >= 0
  /\ col \in Columns
  /\ allocation' = IF total > 0 /\ valuation_data # <<>>
                   THEN Allocate(total, valuation_data, col)
                   ELSE NotCalled
  /\ UNCHANGED <<now, upstream, cache, ncalls, prev, last, valuation_data>>

\* ------------------------------------------- the percentile specification
\* One index, any series of at most MaxLen rows in any order, one call.  The
\* older trade day lies in the 5- and 10-year windows of the first clock
\* value and in the 10-year window only of the second.
TradeDays == {Today - 1095, Today}
Clocks == {Today * Day + Step, (Today + 730) * Day + Step}
PeValues == {NaN, 1004, 1006}
PbValues == {0, 2004, 2006}
Points == [trade_date : TradeDays, pe_ttm : PeValues, pb : PbValues]

RECURSIVE SeqsUpTo(_, _)
SeqsUpTo(S, n) ==
  IF n = 0 THEN {<<>>}
  ELSE LET shorter == SeqsUpTo(S, n - 1)
       IN  shorter \cup {Append(s, x) : s \in {q \in shorter : Len(q) = n - 1}, x \in S}

InitPct ==
  /\ now \in Clocks
  /\ \E rows \in SeqsUpTo(Points, MaxLen) :
       upstream = [e \in Entries |-> IF e = 1 THEN Returned(rows) ELSE Raised]
  /\ cache = [k \in {<<1>>} |-> NoEntry]
  /\ ncalls = 0
  /\ prev = NoCall
  /\ last = NoCall
  /\ valuation_data = <<>>
  /\ allocation = NotCalled

NextPct == ncalls = 0 /\ CallMiss(<<1>>)

SpecPct == InitPct /\ [][NextPct]_vars

\* ---------------------------------------------- claims on the percentiles
\* The state a finished call of the percentile specification leaves: the
\* series it read, its clock and the one summary it returned.
Series == upstream[1].rows
Summarised == last.made /\ Series # <<>>
Reported(c) == last.value.df[1].pct[c]

\* The valid points of a window, by position in the series, written from the
\* definition of the percentile: trade date >= now - 365*W days, ratio not
\* null and > 0.
ValidAt(c) ==
  {i \in 1..Len(Series) :
     /\ Series[i].trade_date * Day >= last.at - 365 * c[2] * Day
     /\ Col(Series[i], c[1]) # NaN
     /\ Col(Series[i], c[1]) > 0}
CurrentRatio(c) == Col(Series[1], c[1])
BelowAt(c) ==
  {i \in ValidAt(c) : CurrentRatio(c) # NaN /\ Col(Series[i], c[1]) < CurrentRatio(c)}
N(c) == Cardinality(ValidAt(c))
K(c) == Cardinality(BelowAt(c))
\* x hundredths is p/q rounded to two decimals
IsRounded(x, p, q) == 2 * (x * q - 100 * p) <= q /\ 2 * (100 * p - x * q) <= q

\* C1 as stated: whenever the valid set V of a window is non-empty the
\* reported percentile equals (points of V strictly below the current
\* ratio) / |V| * 100 exactly, and it is "not available" when V is empty.
C1_Exact ==
  Summarised =>
    \A c \in Columns :
      IF ValidAt(c) = {} THEN Reported(c) = NotAvailable
      ELSE /\ Reported(c).text = "pct"
           /\ Reported(c).hundredths * N(c) = 100 * (100 * K(c))

\* C1 amended: the reported percentile is that quotient rounded to two
\* decimal places (the current ratio being the one of the first row); points
\* equal to the current ratio never count; "not available" when V is empty.
C1_Rounded ==
  Summarised =>
    \A c \in Columns :
      IF ValidAt(c) = {} THEN Reported(c) = NotAvailable
      ELSE /\ Reported(c).text = "pct"
           /\ IsRounded(Reported(c).hundredths, 100 * K(c), N(c))

\* C1 witness: a window of three valid points, one strictly below the current
\* ratio and another one equal to it, has been summarised.
C1_Witness ==
  /\ Summarised
  /\ \E c \in Columns :
       /\ N(c) = 3 /\ K(c) = 1
       /\ \E i \in ValidAt(c) : i # 1 /\ Col(Series[i], c[1]) = CurrentRatio(c)

\* the valid points other than the current row
OthersAt(c) == ValidAt(c) \ {1}
IsMinimum(c) ==
  /\ \E i \in ValidAt(c) : Col(Series[i], c[1]) = CurrentRatio(c)
  /\ \A i \in ValidAt(c) : Col(Series[i], c[1]) >= CurrentRatio(c)
AboveOthers(c) ==
  /\ CurrentRatio(c) # NaN
  /\ \A i \in OthersAt(c) : Col(Series[i], c[1]) < CurrentRatio(c)

\* C9 as stated: with n >= 1 valid points, a current ratio equal to their
\* minimum gives percentile 0, a current ratio strictly greater than every
\* other valid point gives exactly 100*(n-1)/n, and the percentile is in
\* [0,100].
C9_Exact ==
  Summarised =>
    \A c \in Columns :
      N(c) >= 1 =>
        /\ Reported(c).text = "pct"
        /\ Reported(c).hundredths >= 0 /\ Reported(c).hundredths <= 10000
        /\ IsMinimum(c) => Reported(c).hundredths = 0
        /\ AboveOthers(c) => Reported(c).hundredths * N(c) = 10000 * (N(c) - 1)

\* C9 amended: ... a current ratio strictly greater than every other valid
\* point gives 100*(n-1)/n rounded to two decimals when the current row is
\* one of the n valid points, and 100 when it is not.
C9_Rounded ==
  Summarised =>
    \A c \in Columns :
      N(c) >= 1 =>
        /\ Reported(c).text = "pct"
        /\ Reported(c).hundredths >= 0 /\ Reported(c).hundredths <= 10000
        /\ IsMinimum(c) => Reported(c).hundredths = 0
        /\ AboveOthers(c) /\ 1 \in ValidAt(c) =>
             IsRounded(Reported(c).hundredths, 100 * (N(c) - 1), N(c))
        /\ AboveOthers(c) /\ 1 \notin ValidAt(c) => Reported(c).hundredths = 10000

\* C9 witness: a window of three valid points whose current row is valid and
\* above the two others, and a window whose current ratio is its minimum
\* with a larger point beside it, have been summarised.
C9_Witness ==
  /\ Summarised
  /\ \E c \in Columns : N(c) = 3 /\ 1 \in ValidAt(c) /\ AboveOthers(c)
  /\ \E c \in Columns : N(c) >= 2 /\ IsMinimum(c) /\ K(c) = 0

\* the rows of the series at its maximum trade date
Newest ==
  {i \in 1..Len(Series) : \A j \in 1..Len(Series) :
     Series[j].trade_date <= Series[i].trade_date}

\* C10: the current PE and PB of a summary are the values at the maximum
\* trade date of the series, whatever the order of its rows.
C10_CurrentIsNewest ==
  Summarised =>
    \E i \in Newest : \A m \in Metrics :
      last.value.df[1].current[m] = FormatRatio(Col(Series[i], m))

\* ------------------------------------------- the allocation specification
\* Any table of at most MaxRows summaries, then calls of calculate_allocation
\* and runs of the page on it.
PbSamples ==
  {NotAvailable} \cup
  {[text |-> "pct", hundredths |-> h] :
     h \in {0, 1500, 1999, 2000, 4000, 6000, 7999, 8000, 9000, 10000}}
PeSamples == {NotAvailable, [text |-> "pct", hundredths |-> 5000]}
Selectors == {<<"PB", 5>>, <<"PE", 10>>, MissingCol}
Totals == {-10000, 0, 1, 50000, 100000}

SummaryRow(name, pb, pe) ==
  [name |-> name,
   current |-> [m \in Metrics |-> FormatRatio(1004)],
   pct |-> [c \in Columns |-> IF c[1] = "PB" THEN pb ELSE pe]]

Tables ==
  UNION {[1..n -> PbSamples \X PeSamples] : n \in 0..MaxRows}

InitAlloc ==
  /\ now = Today * Day
  /\ upstream = [e \in Entries |-> Raised]
  /\ cache = [k \in {<<1>>} |-> NoEntry]
  /\ ncalls = 0
  /\ prev = NoCall
  /\ last = NoCall
  /\ \E t \in Tables :
       valuation_data = [i \in DOMAIN t |-> SummaryRow(i, t[i][1], t[i][2])]
  /\ allocation = NotCalled

NextAlloc ==
  \/ \E total \in Totals, col \in Selectors : CalculateAllocation(total, col)
  \/ \E total \in Totals, col \in Selectors : Rerun(total, col)

SpecAlloc == InitAlloc /\ [][NextAlloc]_vars

\* ----------------------------------------------- claims on the allocation
\* calculate_allocation went past its first return: there are rows
Allocated == allocation.called /\ ~allocation.empty
Rows == allocation.rows
WeightSum == SumSeq([i \in DOMAIN Rows |-> Rows[i].weight])
AmountSum == SumSeq([i \in DOMAIN Rows |-> Rows[i].amount])
Abs(x) == IF x < 0 THEN -x ELSE x
Pct(h) == [text |-> "pct", hundredths |-> h]

\* C2: every weight is one of 2.0, 1.5, 1.0, 0.5, 0.1, 0 and follows the
\* closed-open bands of the selected percentile: below 20 -> 2.0, [20,40) ->
\* 1.5, [40,60) -> 1.0, [60,80) -> 0.5, 80 and above -> 0.1, not available
\* -> 0.
C2_WeightBands ==
  Allocated =>
    \A i \in DOMAIN Rows :
      LET p == Rows[i].percentile
          h == p.hundredths
          w == Rows[i].weight
      IN  /\ w \in {20, 15, 10, 5, 1, 0}
          /\ p = valuation_data[i].pct[allocation.col]
          /\ p = NotAvailable => w = 0
          /\ p.text = "pct" /\ h < 2000 => w = 20
          /\ p.text = "pct" /\ 2000 <= h /\ h < 4000 => w = 15
          /\ p.text = "pct" /\ 4000 <= h /\ h < 6000 => w = 10
          /\ p.text = "pct" /\ 6000 <= h /\ h < 8000 => w = 5
          /\ p.text = "pct" /\ 8000 <= h => w = 1

\* C2 witness: rows at exactly 20.00% and exactly 80.00% have been weighted.
C2_Witness ==
  /\ Allocated
  /\ \E i, j \in DOMAIN Rows :
       Rows[i].percentile = Pct(2000) /\ Rows[j].percentile = Pct(8000)

\* C3: with a positive weight sum every amount is totalAmount * weight /
\* (sum of weights) rounded to two decimals; percentiles 15 and 60 with 1000
\* give 800.00 and 200.00; two rows at 90 with 500 give 250.00 each.
C3_Proportional ==
  Allocated /\ WeightSum > 0 =>
    /\ \A i \in DOMAIN Rows :
         2 * Abs(Rows[i].amount * WeightSum - Rows[i].weight * allocation.total)
           <= WeightSum
    /\ ( /\ Len(Rows) = 2 /\ allocation.total = 100000
         /\ Rows[1].percentile = Pct(1500) /\ Rows[2].percentile = Pct(6000) )
       => Rows[1].amount = 80000 /\ Rows[2].amount = 20000
    /\ ( /\ Len(Rows) = 2 /\ allocation.total = 50000
         /\ Rows[1].percentile = Pct(9000) /\ Rows[2].percentile = Pct(9000) )
       => Rows[1].amount = 25000 /\ Rows[2].amount = 25000

\* C3 witness: two rows of different positive weight have been given amounts
\* that both needed rounding.
C3_Witness ==
  /\ Allocated /\ WeightSum > 0 /\ Len(Rows) = 2
  /\ Rows[1].weight # Rows[2].weight
  /\ \A i \in DOMAIN Rows :
       Rows[i].weight > 0 /\ (Rows[i].weight * allocation.total) % WeightSum # 0

\* C4: for totalAmount >= 0 and a positive weight sum, the amounts add up to
\* totalAmount within 0.01 per row.
C4_SumWithinTolerance ==
  Allocated /\ WeightSum > 0 /\ allocation.total >= 0 =>
    Abs(AmountSum - allocation.total) <= Len(Rows)

\* C4 witness: amounts of several rows that do not add up to the total
\* exactly have been computed.
C4_Witness ==
  /\ Allocated /\ WeightSum > 0 /\ allocation.total > 0
  /\ Len(Rows) >= 2
  /\ AmountSum # allocation.total

\* C5: when the weights computed for the summaries add up to 0, every amount
\* is exactly 0 whatever the total, there is one row per summary, and the
\* no-investment notice is emitted.
C5_NoInvestment ==
  Allocated /\ WeightSum = 0 =>
    /\ \A i \in DOMAIN Rows : Rows[i].amount = 0
    /\ Len(Rows) = Len(valuation_data)
    /\ allocation.warning

\* C5 witness: two summaries without a percentile have been allocated a
\* non-zero total.
C5_Witness ==
  /\ Allocated /\ WeightSum = 0 /\ Len(Rows) = 2
  /\ allocation.total # 0 /\ allocation.warning

\* C8: for totalAmount <= 0 the allocation returns nothing or rows whose
\* amounts are all 0, never a negative amount.
C8_NonPositiveIsNoOp ==
  allocation.called /\ allocation.total <= 0 =>
    \/ allocation.empty
    \/ \A i \in DOMAIN Rows : Rows[i].amount = 0

\* ------------------------------------------------ the fetch specification
\* Several indices whose upstream answers change while the clock advances,
\* and calls of the memoised get_valuation_data on any portfolio of them.
\* At the first clock value OldPoint lies on the edge of the 3-year window;
\* one step later it has left it.
OldPoint == [trade_date |-> Today - 1095, pe_ttm |-> 1004, pb |-> 2004]
Responses == {Raised, Returned(<<>>), Returned(<<OldPoint>>)}

\* the portfolio in its dictionary order, and in the opposite order
Portfolios == {[i \in Entries |-> i], [i \in Entries |-> NumEntries + 1 - i]}

Init ==
  /\ now = Today * Day
  /\ upstream \in [Entries -> Responses]
  /\ cache = [k \in Portfolios |-> NoEntry]
  /\ ncalls = 0
  /\ prev = NoCall
  /\ last = NoCall
  /\ valuation_data = <<>>
  /\ allocation = NotCalled

\* time passes: the clock advances one step, and meanwhile the provider's
\* answers may have changed
Elapse(up) ==
  /\ now < Today * Day + MaxTicks * Step
  /\ now' = now + Step
  /\ upstream' = up
  /\ UNCHANGED <<cache, ncalls, prev, last, valuation_data, allocation>>

Next ==
  \/ \E up \in [Entries -> Responses] : Elapse(up)
  \/ \E key \in Portfolios : CallHit(key)
  \/ \E key \in Portfolios : CallMiss(key)

Spec == Init /\ [][Next]_vars

\* ------------------------------------------------------ claims on the fetch
\* the last call ran the function body, on the answers the provider gives now
JustComputed == last.made /\ ~last.hit /\ last.at = now
Summarises(value, e) == \E i \in DOMAIN value.df : value.df[i].name = e
Usable(e) == upstream[e].ok /\ upstream[e].rows # <<>>

\* C6: when the series of one entry is empty or its upstream call fails,
\* only that entry is skipped: the result still holds a summary for every
\* other entry whose call succeeds with a non-empty series.
C6_OnlyThatEntrySkipped ==
  JustComputed =>
    \A e \in Entries : Usable(e) => Summarises(last.value, e)

\* the two most recent calls had identical inputs
SameInputs == prev.made /\ last.made /\ prev.key = last.key

\* C7 as stated: two calls with identical inputs made within 3600 seconds of
\* each other return identical summaries.
C7_WithinTtlOfEachOther ==
  SameInputs /\ last.at - prev.at < TTL => last.value.df = prev.value.df

\* C7 amended: two calls with identical inputs return identical summaries
\* when the later one is made less than 3600 seconds after the call that
\* computed what the earlier one returned.
C7_WithinTtlOfComputation ==
  SameInputs /\ last.at - prev.computed_at < TTL => last.value.df = prev.value.df

\* C7 witness: a second call with the same inputs, later than the first but
\* inside the TTL, has returned the first one's summaries although the
\* function body would now compute different ones.
C7_Witness ==
  /\ SameInputs
  /\ last.at > prev.at
  /\ last.at - prev.computed_at < TTL
  /\ last.at = now
  /\ last.value.df = prev.value.df
  /\ FetchBody(last.key, upstream, now).df # last.value.df

====
